---- MODULE Spec2Model ----
(***************************************************************************)
(* event-calplot: the data-to-geometry pipeline of create_calendar_heatmap *)
(* (preprocessing.py, traces.py, layout.py, locales.py, heatmap.py).       *)
(*                                                                         *)
(* A timestamp is a record [year, month, day, tod]; tod = 0 is midnight    *)
(* and any other tod is a time of day.  A DataFrame is a sequence of rows  *)
(* (records); a column that holds NaN in some rows is kept as an option:   *)
(* <<>> for NaN and <<v>> for the number v.  Coordinates of the separator  *)
(* lines are kept in half units (a stored 2*x stands for x), so that the   *)
(* line offset 0.5 is the integer 1.  A frame carries the columns date and *)
(* value and, when it is the output of preprocess_data, weekday and        *)
(* weeknum.                                                                *)
(*                                                                         *)
(* The arguments year, event_dates and language of one call are drawn when *)
(* the code first reads them; until then the variable holds <<>>.          *)
(***************************************************************************)
EXTENDS Integers, Sequences, FiniteSets, TLC

VARIABLES
    pc,               \* position inside create_calendar_heatmap
    data,             \* argument data: the observation rows (date_col, value_col)
    year,             \* argument year: <<y>>
    language,         \* argument language: <<l>>
    event_dates,      \* argument event_dates: <<"None", <<>>>> or <<"list", l>>
    processed_data,   \* heatmap.py:89
    available_years,  \* heatmap.py:96
    year_data,        \* heatmap.py:104, 108, 127
    month_positions,  \* heatmap.py:121, numerators of the positions over 7
    locale_text,      \* layout.py:51
    error,            \* the raised ValueError, <<>> when none
    fig               \* the returned figure, <<>> when none

vars == <<pc, data, year, language, event_dates, processed_data, available_years,
          year_data, month_positions, locale_text, error, fig>>

-----------------------------------------------------------------------------
(* Bounds of the model *)

\* the longest observation series drawn from the sample observations
MaxObs == 2

-----------------------------------------------------------------------------
(* Calendar arithmetic behind the pandas accessors dt.year, dt.month,      *)
(* dt.day, dt.weekday, strftime("%V") and date_range                       *)

MkDate(y, m, d, t) == [year |-> y, month |-> m, day |-> d, tod |-> t]

IsLeap(y) == (y % 4 = 0 /\ y % 100 # 0) \/ y % 400 = 0

DaysInMonth(y, m) ==
    IF m = 2 THEN (IF IsLeap(y) THEN 29 ELSE 28)
    ELSE IF m \in {4, 6, 9, 11} THEN 30 ELSE 31

DaysInYear(y) == IF IsLeap(y) THEN 366 ELSE 365

RECURSIVE DaysBeforeMonth(_, _)
DaysBeforeMonth(y, m) ==
    IF m = 1 THEN 0 ELSE DaysBeforeMonth(y, m - 1) + DaysInMonth(y, m - 1)

DayOfYear(dt) == DaysBeforeMonth(dt.year, dt.month) + dt.day

\* proleptic Gregorian ordinal: 0001-01-01 is day 1
DaysBeforeYear(y) ==
    365 * (y - 1) + ((y - 1) \div 4) - ((y - 1) \div 100) + ((y - 1) \div 400)

ToOrdinal(dt) == DaysBeforeYear(dt.year) + DayOfYear(dt)

\* total order of timestamps
TsLess(a, b) ==
    \/ ToOrdinal(a) < ToOrdinal(b)
    \/ ToOrdinal(a) = ToOrdinal(b) /\ a.tod < b.tod

\* a weekday that counts from Tuesday
WeekdayAlt(dt) == (ToOrdinal(dt) + 5) % 7

\* dt.weekday: 0 = Monday .. 6 = Sunday
Weekday(dt) == (ToOrdinal(dt) + 6) % 7

\* the number of ISO weeks of year y: 53 when Jan 1 is a Thursday, or a
\* Wednesday in a leap year
WeeksInYear(y) ==
    LET jan1 == Weekday(MkDate(y, 1, 1, 0))
    IN IF jan1 = 3 \/ (jan1 = 2 /\ IsLeap(y)) THEN 53 ELSE 52

\* strftime("%V"): the ISO 8601 week of the year, 1..53
ISOWeek(dt) ==
    LET w == (DayOfYear(dt) - (Weekday(dt) + 1) + 10) \div 7
    IN IF w < 1 THEN WeeksInYear(dt.year - 1)
       ELSE IF w > WeeksInYear(dt.year) THEN 1
       ELSE w

-----------------------------------------------------------------------------
(* preprocessing.py *)

\* Series.dt.normalize on one timestamp
NormalizeTs(ts) == MkDate(ts.year, ts.month, ts.day, 0)

\* normalize_dates: the date column without time of day, the rest unchanged
normalize_dates(df) ==
    [i \in 1..Len(df) |-> [df[i] EXCEPT !.date = NormalizeTs(@)]]

\* the days of one month, in order
MonthDates(y, m) == [d \in 1..DaysInMonth(y, m) |-> MkDate(y, m, d, 0)]

\* pd.date_range from (y, m, 1) to (end_year, 12, 31)
RECURSIVE DateRangeFrom(_, _, _)
DateRangeFrom(y, m, end_year) ==
    IF y > end_year THEN <<>>
    ELSE MonthDates(y, m) \o
         (IF m = 12 THEN DateRangeFrom(y + 1, 1, end_year)
                    ELSE DateRangeFrom(y, m + 1, end_year))

\* create_full_date_range: one row per day of start_year-01-01 .. end_year-12-31
create_full_date_range(start_year, end_year) ==
    LET days == DateRangeFrom(start_year, 1, end_year)
    IN [i \in 1..Len(days) |-> [date |-> days[i]]]

\* the rows of df whose date is dt, in df's order
RowsOn(df, dt) == SelectSeq(df, LAMBDA r : r.date = dt)

RECURSIVE InsertRow(_, _)
\* row r put into the date-sorted rows s, after the rows of its own date
InsertRow(s, r) ==
    IF s = <<>> THEN <<r>>
    ELSE IF TsLess(r.date, Head(s).date) THEN <<r>> \o s
    ELSE <<Head(s)>> \o InsertRow(Tail(s), r)

RECURSIVE InsertRows(_, _)
InsertRows(s, rs) ==
    IF rs = <<>> THEN s ELSE InsertRows(InsertRow(s, Head(rs)), Tail(rs))

\* one merged row: the key and the other columns of right, each the cell of
\* the matching row r, or NaN when r is <<>> (no row matches)
MergedRow(dt, cols, r) ==
    IF "weekday" \in cols
    THEN [date |-> dt,
          value |-> IF r = <<>> THEN <<>> ELSE <<r[1].value>>,
          weekday |-> IF r = <<>> THEN <<>> ELSE <<r[1].weekday>>,
          weeknum |-> IF r = <<>> THEN <<>> ELSE <<r[1].weeknum>>]
    ELSE [date |-> dt, value |-> IF r = <<>> THEN <<>> ELSE <<r[1].value>>]

\* the rows for one key with the matching rows of right in reverse order
MergeKeyReversed(dt, right) ==
    LET hits == RowsOn(right, dt)
        cols == DOMAIN right[1]
    IN IF hits = <<>>
       THEN << MergedRow(dt, cols, <<>>) >>
       ELSE [i \in 1..Len(hits) |-> MergedRow(dt, cols, <<hits[Len(hits) + 1 - i]>>)]

\* the rows an outer merge makes for one key of left: one row per matching
\* row of right, or one row of NaN when none matches
MergeKey(dt, right) ==
    LET hits == RowsOn(right, dt)
        cols == DOMAIN right[1]
    IN IF hits = <<>>
       THEN << MergedRow(dt, cols, <<>>) >>
       ELSE [i \in 1..Len(hits) |-> MergedRow(dt, cols, <<hits[i]>>)]

RECURSIVE MergeLeft(_, _, _, _)
\* the merged rows for the keys left[lo..hi] (left is sorted, its keys unique)
MergeLeft(left, right, lo, hi) ==
    IF lo > hi THEN <<>>
    ELSE IF lo = hi THEN MergeKey(left[lo].date, right)
    ELSE LET mid == (lo + hi) \div 2
         IN MergeLeft(left, right, lo, mid) \o MergeLeft(left, right, mid + 1, hi)

\* date_df.merge(right=df, how="outer") on the one common column, the date:
\* the keys of both frames, sorted
MergeOuter(left, right) ==
    LET keys == {left[i].date : i \in 1..Len(left)}
        only == SelectSeq(right, LAMBDA r : r.date \notin keys)
        extra == [i \in 1..Len(only) |->
                     MergedRow(only[i].date, DOMAIN right[1], <<only[i]>>)]
    IN InsertRows(MergeLeft(left, right, 1, Len(left)), extra)

\* a fill with 1 in place of 0
FillNaKeep(v) == IF v = <<>> THEN 1 ELSE v[1]

\* Series.fillna(value=0) on one cell
FillNa(v) == IF v = <<>> THEN 0 ELSE v[1]

\* min() and max() of a non-empty list of integers
SeqMin(s) == CHOOSE m \in {s[i] : i \in 1..Len(s)} : \A i \in 1..Len(s) : m <= s[i]

SeqMax(s) == CHOOSE m \in {s[i] : i \in 1..Len(s)} : \A i \in 1..Len(s) : m >= s[i]

\* fill_missing_dates
fill_missing_dates(df, years) ==
    LET start_year == SeqMin(years)
        end_year == SeqMax(years)
        date_df == create_full_date_range(start_year, end_year)
        result == MergeOuter(date_df, df)
    IN [i \in 1..Len(result) |-> [result[i] EXCEPT !.value = FillNa(@)]]

\* the corrections without the December one
WeeknumOfNoDec(dt) ==
    LET weeknum == ISOWeek(dt)
    IN IF dt.month = 1 /\ weeknum >= 52 THEN 0 ELSE weeknum

\* the corrections with the January threshold at 53
WeeknumOfJan53(dt) ==
    LET weeknum == ISOWeek(dt)
    IN IF dt.month = 1 /\ weeknum >= 53 THEN 0
       ELSE IF dt.month = 12 /\ weeknum = 1 THEN 53
       ELSE weeknum

\* weeknum of one row: the ISO week with the January and December corrections
WeeknumOf(dt) ==
    LET weeknum == ISOWeek(dt)
    IN IF dt.month = 1 /\ weeknum >= 52 THEN 0
       ELSE IF dt.month = 12 /\ weeknum = 1 THEN 53
       ELSE weeknum

\* add_weekday_info: the columns weekday and weeknum are set, or replaced
\* when the frame has them
add_weekday_info(df) ==
    [i \in 1..Len(df) |->
        [date |-> df[i].date, value |-> df[i].value,
         weekday |-> Weekday(df[i].date), weeknum |-> WeeknumOf(df[i].date)]]

\* Series.unique: the distinct values in order of first appearance
Unique(s) ==
    LET vals == {s[i] : i \in 1..Len(s)}
        first(v) == CHOOSE i \in 1..Len(s) : s[i] = v /\ \A j \in 1..(i - 1) : s[j] # v
        rank(v) == Cardinality({w \in vals : first(w) <= first(v)})
    IN [k \in 1..Cardinality(vals) |-> CHOOSE v \in vals : rank(v) = k]

YearColumn(df) == [i \in 1..Len(df) |-> df[i].date.year]

\* preprocess_data
preprocess_data(df) ==
    LET result == normalize_dates(df)
        years == Unique(YearColumn(result))
    IN add_weekday_info(fill_missing_dates(result, years))

RECURSIVE Sorted(_)
\* sorted() of a list of integers
Sorted(s) ==
    IF s = <<>> THEN <<>>
    ELSE LET m == SeqMin(s)
             i == CHOOSE k \in 1..Len(s) : s[k] = m
         IN <<m>> \o Sorted(SubSeq(s, 1, i - 1) \o SubSeq(s, i + 1, Len(s)))

\* get_years_in_data
get_years_in_data(df) == Sorted(Unique(YearColumn(df)))

\* filter_by_year
filter_by_year(df, y) == SelectSeq(df, LAMBDA r : r.date.year = y)

-----------------------------------------------------------------------------
(* traces.py *)

\* line_offset in half units (0.5)
LineOffset2 == 1

\* the separator columns with the Monday test of combined_mask left out
MonthLineColumnsNoMonday(r) ==
    LET first_day == r.date.day = 1
        combined == first_day
    IN [first_line_x   |-> IF first_day THEN <<2 * r.weeknum - LineOffset2>> ELSE <<>>,
        first_line_y1  |-> IF first_day THEN <<2 * r.weekday - LineOffset2>> ELSE <<>>,
        first_line_y2  |-> IF first_day THEN <<2 * 6 + LineOffset2>> ELSE <<>>,
        second_line_x1 |-> IF combined THEN <<2 * r.weeknum - LineOffset2>> ELSE <<>>,
        second_line_x2 |-> IF combined THEN <<2 * r.weeknum + LineOffset2>> ELSE <<>>,
        second_line_y  |-> IF combined THEN <<2 * r.weekday - LineOffset2>> ELSE <<>>,
        third_line_x   |-> IF combined THEN <<2 * r.weeknum + LineOffset2>> ELSE <<>>,
        third_line_y1  |-> IF combined THEN <<2 * r.weekday - LineOffset2>> ELSE <<>>,
        third_line_y2  |-> IF combined THEN <<0 - LineOffset2>> ELSE <<>>]

\* the nine separator columns of one row: first_day_mask is day = 1,
\* combined_mask is day = 1 and weekday # 0
MonthLineColumns(r) ==
    LET first_day == r.date.day = 1
        combined == first_day /\ r.weekday # 0
    IN [first_line_x   |-> IF first_day THEN <<2 * r.weeknum - LineOffset2>> ELSE <<>>,
        first_line_y1  |-> IF first_day THEN <<2 * r.weekday - LineOffset2>> ELSE <<>>,
        first_line_y2  |-> IF first_day THEN <<2 * 6 + LineOffset2>> ELSE <<>>,
        second_line_x1 |-> IF combined THEN <<2 * r.weeknum - LineOffset2>> ELSE <<>>,
        second_line_x2 |-> IF combined THEN <<2 * r.weeknum + LineOffset2>> ELSE <<>>,
        second_line_y  |-> IF combined THEN <<2 * r.weekday - LineOffset2>> ELSE <<>>,
        third_line_x   |-> IF combined THEN <<2 * r.weeknum + LineOffset2>> ELSE <<>>,
        third_line_y1  |-> IF combined THEN <<2 * r.weekday - LineOffset2>> ELSE <<>>,
        third_line_y2  |-> IF combined THEN <<0 - LineOffset2>> ELSE <<>>]

\* calculate_month_line_positions: the rows with the separator columns added
calculate_month_line_positions(df) ==
    [i \in 1..Len(df) |-> df[i] @@ MonthLineColumns(df[i])]

\* a mask that is true on every row once any event date is given
IsInAny(dt, dates) == dates # <<>>

\* Series.isin(event_dates) on one cell: equality of timestamps
IsIn(dt, dates) == \E k \in 1..Len(dates) : dates[k] = dt

\* add_event_markers: the rows with the column event, 1 where the date is
\* among event_dates and 0 elsewhere
add_event_markers(df, dates) ==
    [i \in 1..Len(df) |->
        df[i] @@ [event |-> IF IsIn(df[i].date, dates) THEN 1 ELSE 0]]

-----------------------------------------------------------------------------
(* locales.py *)

\* the keys of the dict locales, in order
LocaleKeys == <<"en", "ko">>

\* the dict locales (the Korean labels are written in Latin letters)
Locales ==
    [l \in {"en", "ko"} |->
        IF l = "en"
        THEN [months |-> <<"Jan", "Feb", "Mar", "Apr", "May", "Jun",
                           "Jul", "Aug", "Sep", "Oct", "Nov", "Dec">>,
              weekdays |-> <<"Mon", "Tue", "Wed", "Thu", "Fri", "Sat", "Sun">>]
        ELSE [months |-> <<"1wol", "2wol", "3wol", "4wol", "5wol", "6wol",
                           "7wol", "8wol", "9wol", "10wol", "11wol", "12wol">>,
              weekdays |-> <<"wol", "hwa", "su", "mok", "geum", "to", "il">>]]

\* a lookup that falls back to a default locale
LocaleKnownDefault(lang) == TRUE

\* locales.get(language) is not None
LocaleKnown(lang) == lang \in DOMAIN Locales

\* get_locale_text: <<labels>>, or <<>> when it raises
get_locale_text(lang) ==
    IF LocaleKnown(lang)
    THEN << IF lang \in DOMAIN Locales THEN Locales[lang] ELSE Locales["en"] >>
    ELSE <<>>

\* the ValueError of get_locale_text
LocaleError(lang) ==
    [type |-> "ValueError", what |-> "Unsupported language code",
     language |-> lang, supported |-> LocaleKeys]

-----------------------------------------------------------------------------
(* layout.py *)

\* MID_MONTH_DAY
MID_MONTH_DAY == 15

\* the day counts themselves, not accumulated
CumSumNone(s) == s

RECURSIVE CumSum(_)
\* np.cumsum
CumSum(s) ==
    IF s = <<>> THEN <<>>
    ELSE LET c == CumSum(SubSeq(s, 1, Len(s) - 1))
         IN Append(c, (IF c = <<>> THEN 0 ELSE c[Len(c)]) + s[Len(s)])

\* calculate_month_positions: the numerators of (cumsum - MID_MONTH_DAY) / 7
calculate_month_positions(days_in_months) ==
    LET cumsum == CumSum(days_in_months)
    IN [i \in 1..Len(cumsum) |-> cumsum[i] - MID_MONTH_DAY]

-----------------------------------------------------------------------------
(* heatmap.py: create_calendar_heatmap, one action per step *)

\* year not in available_years
YearMissing(y, years) == ~ \E i \in 1..Len(years) : years[i] = y

\* the ValueError of the year validation
YearError(y, years) ==
    [type |-> "ValueError", what |-> "Year not found in data",
     year |-> y, available |-> years]

\* days_in_months: the lengths of the distinct months of year_data, in order
DaysInMonths(df) ==
    LET periods == Unique([i \in 1..Len(df) |-> <<df[i].date.year, df[i].date.month>>])
    IN [k \in 1..Len(periods) |-> DaysInMonth(periods[k][1], periods[k][2])]

\* preprocess_data(df=data, ...)
Preprocess ==
    /\ pc = "preprocess"
    /\ processed_data' = preprocess_data(data)
    /\ pc' = "validate"
    /\ UNCHANGED <<data, year, language, event_dates, available_years, year_data,
                   month_positions, locale_text, error, fig>>

\* available_years = get_years_in_data(...); raise when year is not among them
ValidateYear(y) ==
    /\ pc = "validate"
    /\ year' = <<y>>
    /\ available_years' = get_years_in_data(processed_data)
    /\ IF YearMissing(y, available_years')
       THEN /\ error' = << YearError(y, available_years') >>
            /\ pc' = "raised"
       ELSE /\ error' = error
            /\ pc' = "filter"
    /\ UNCHANGED <<data, language, event_dates, processed_data, year_data,
                   month_positions, locale_text, fig>>

\* year_data = filter_by_year(...)
FilterYear ==
    /\ pc = "filter"
    /\ year_data' = filter_by_year(processed_data, year[1])
    /\ pc' = "events"
    /\ UNCHANGED <<data, year, language, event_dates, processed_data,
                   available_years, month_positions, locale_text, error, fig>>

\* if event_dates is not None: year_data = add_event_markers(...)
AddEvents(ev) ==
    /\ pc = "events"
    /\ event_dates' = ev
    /\ year_data' = IF ev[1] # "None"
                    THEN add_event_markers(year_data, ev[2])
                    ELSE year_data
    /\ pc' = "positions"
    /\ UNCHANGED <<data, year, language, processed_data,
                   available_years, month_positions, locale_text, error, fig>>

\* month_positions = calculate_month_positions(days_in_months)
MonthPositions ==
    /\ pc = "positions"
    /\ month_positions' = calculate_month_positions(DaysInMonths(year_data))
    /\ pc' = "layout"
    /\ UNCHANGED <<data, year, language, event_dates, processed_data,
                   available_years, year_data, locale_text, error, fig>>

\* create_layout: get_locale_text(language), which may raise
CreateLayout(lang) ==
    /\ pc = "layout"
    /\ language' = <<lang>>
    /\ LET got == get_locale_text(lang)
       IN IF got = <<>>
          THEN /\ error' = << LocaleError(lang) >>
               /\ locale_text' = locale_text
               /\ pc' = "raised"
          ELSE /\ error' = error
               /\ locale_text' = got
               /\ pc' = "lines"
    /\ UNCHANGED <<data, year, event_dates, processed_data,
                   available_years, year_data, month_positions, fig>>

\* year_data = calculate_month_line_positions(...)
MonthLines ==
    /\ pc = "lines"
    /\ year_data' = calculate_month_line_positions(year_data)
    /\ pc' = "figure"
    /\ UNCHANGED <<data, year, language, event_dates, processed_data,
                   available_years, month_positions, locale_text, error, fig>>

\* the traces, go.Figure and the title
BuildFigure ==
    /\ pc = "figure"
    /\ fig' = << [title |-> year[1],
                  traces |-> <<"line1", "line2", "line3", "value">> \o
                             (IF event_dates[1] # "None" THEN <<"event">> ELSE <<>>),
                  ticktext_x |-> locale_text[1].months,
                  tickvals_x |-> month_positions,
                  ticktext_y |-> locale_text[1].weekdays] >>
    /\ pc' = "done"
    /\ UNCHANGED <<data, year, language, event_dates, processed_data,
                   available_years, year_data, month_positions, locale_text, error>>

-----
(* The calls explored *)

\* sample observations: the last day of 2023, one day of 2024 seen twice (at
\* midnight and in the afternoon), and one day of 2025
SampleObs ==
    { [date |-> MkDate(2023, 12, 31, 0), value |-> 5],
      [date |-> MkDate(2024, 2, 14, 0), value |-> 1],
      [date |-> MkDate(2024, 2, 14, 1), value |-> 2],
      [date |-> MkDate(2025, 3, 1, 1), value |-> 3] }

SeqsUpTo(S, n) == UNION {[1..k -> S] : k \in 1..n}

\* 28 consecutive years: every starting weekday, leap and not
ShapeYears == 2000..2027

\* pd.date_range('2024-01-01', '2024-12-31') with values 0..365
FullYear2024 ==
    LET days == DateRangeFrom(2024, 1, 2024)
    IN [i \in 1..Len(days) |-> [date |-> days[i], value |-> i - 1]]

DataInputs ==
    SeqsUpTo(SampleObs, MaxObs)
    \cup { << [date |-> MkDate(y, 7, 4, 1), value |-> 7] >> : y \in ShapeYears }
    \cup { FullYear2024 }

\* the years of the data, one before and one after
YearInputs(df) ==
    LET ys == YearColumn(df) IN (SeqMin(ys) - 1)..(SeqMax(ys) + 1)

LanguageInputs == {"en", "ko", "fr", "EN"}

EventInputs ==
    { <<"None", <<>>>>,
      <<"list", <<MkDate(2024, 2, 14, 0)>>>>,
      <<"list", <<MkDate(2024, 2, 14, 1)>>>>,
      <<"list", <<MkDate(2024, 2, 14, 0), MkDate(2026, 1, 1, 0)>>>> }

Init ==
    /\ pc = "preprocess"
    /\ data \in DataInputs
    /\ year = <<>>
    /\ language = <<>>
    /\ event_dates = <<>>
    /\ processed_data = <<>>
    /\ available_years = <<>>
    /\ year_data = <<>>
    /\ month_positions = <<>>
    /\ locale_text = <<>>
    /\ error = <<>>
    /\ fig = <<>>

Next ==
    \/ Preprocess
    \/ \E y \in YearInputs(data) : ValidateYear(y)
    \/ FilterYear
    \/ \E ev \in EventInputs : AddEvents(ev)
    \/ MonthPositions
    \/ \E lang \in LanguageInputs : CreateLayout(lang)
    \/ MonthLines
    \/ BuildFigure

Spec == Init /\ [][Next]_vars

\* a second call of preprocess_data, on the frame the first one returned
Reprocess ==
    /\ pc = "validate"
    /\ data' = processed_data
    /\ processed_data' = preprocess_data(processed_data)
    /\ pc' = "reprocessed"
    /\ UNCHANGED <<year, language, event_dates, available_years, year_data,
                   month_positions, locale_text, error, fig>>

NextIdem ==
    \/ Preprocess
    \/ Reprocess

\* preprocess_data applied to the observations and then to its own output
SpecIdem == Init /\ [][NextIdem]_vars

-----------------------------------------------------------------------------
(* Vocabulary of the properties *)

\* two timestamps on the same calendar day
SameDay(a, b) == a.year = b.year /\ a.month = b.month /\ a.day = b.day

\* the years of the observations
ObservedYears == {data[i].date.year : i \in 1..Len(data)}

\* the observations (indices into data) that fall on the calendar day of dt
ObsOn(dt) == {i \in 1..Len(data) : SameDay(data[i].date, dt)}

\* the weekday counted from a known Monday, 2024-01-01
WeekdayFromAnchor(dt) == (ToOrdinal(dt) - ToOrdinal(MkDate(2024, 1, 1, 0))) % 7

\* ISO 8601: the week of a date is the week of the year that holds the
\* Thursday of the date's Monday-to-Sunday week
IsoWeekByThursday(dt) ==
    LET th == ToOrdinal(dt) - WeekdayFromAnchor(dt) + 3
        y == CHOOSE c \in (dt.year - 1)..(dt.year + 1) :
                 DaysBeforeYear(c) < th /\ th <= DaysBeforeYear(c + 1)
    IN ((th - DaysBeforeYear(y) - 1) \div 7) + 1

\* the grid has just been built
GridBuilt == pc = "validate"

\* the year has just been filtered
YearFiltered == pc = "events"

\* the rows of a frame that carry event = 1
Marked(df) == {i \in 1..Len(df) : df[i].event = 1}

-----------------------------------------------------------------------------
(* C1 *)

\* C1 (as stated): the dense grid of preprocess_data holds exactly one row
\* per calendar date from Jan 1 of the least observed year to Dec 31 of the
\* greatest: row i is the i-th day of the span, so no date is missing, none
\* appears twice, and the row count is the number of days of the span.
C1_OneRowPerDate ==
    GridBuilt =>
        LET first == DaysBeforeYear(SeqMin(YearColumn(data))) + 1
            last == DaysBeforeYear(SeqMax(YearColumn(data)) + 1)
        IN /\ Len(processed_data) = last - first + 1
           /\ \A i \in 1..Len(processed_data) :
                  /\ ToOrdinal(processed_data[i].date) = first + i - 1
                  /\ processed_data[i].date.tod = 0

-----------------------------------------------------------------------------
(* C2 *)

\* C2: in the dense grid, a date with no observation carries value 0, a date
\* with observations carries the value of one of them, and every observation
\* is carried by a row of its date.
C2_ZeroFillKeepsValues ==
    GridBuilt =>
        /\ \A i \in 1..Len(processed_data) :
               LET r == processed_data[i]
               IN IF ObsOn(r.date) = {}
                  THEN r.value = 0
                  ELSE \E k \in ObsOn(r.date) : r.value = data[k].value
        /\ \A k \in 1..Len(data) :
               \E i \in 1..Len(processed_data) :
                   /\ SameDay(processed_data[i].date, data[k].date)
                   /\ processed_data[i].value = data[k].value

\* a grid with a zero-filled date and a date that carries an observed value
C2_Witness ==
    /\ GridBuilt
    /\ \E i \in 1..Len(processed_data) :
           ObsOn(processed_data[i].date) = {} /\ processed_data[i].value = 0
    /\ \E i \in 1..Len(processed_data) :
           ObsOn(processed_data[i].date) # {} /\ processed_data[i].value = 5

-----------------------------------------------------------------------------
(* C3 *)

\* C3: every row has weekday in 0..6 with 0 = Monday and weeknum in 0..53;
\* weeknum is the ISO week of the date, except 0 for a January date whose
\* ISO week is >= 52 and 53 for a December date whose ISO week is 1.
C3_WeekdayAndWeeknum ==
    GridBuilt =>
        \A i \in 1..Len(processed_data) :
            LET r == processed_data[i]
                iso == IsoWeekByThursday(r.date)
            IN /\ r.weekday \in 0..6
               /\ r.weekday = WeekdayFromAnchor(r.date)
               /\ r.weeknum \in 0..53
               /\ r.weeknum = IF r.date.month = 1 /\ iso >= 52 THEN 0
                              ELSE IF r.date.month = 12 /\ iso = 1 THEN 53
                              ELSE iso

\* a grid with a January date moved to week 0, a December date moved to week
\* 53 and a date that keeps its ISO week
C3_Witness ==
    /\ GridBuilt
    /\ \E i \in 1..Len(processed_data) :
           /\ processed_data[i].date.month = 1
           /\ IsoWeekByThursday(processed_data[i].date) >= 52
           /\ processed_data[i].weeknum = 0
    /\ \E i \in 1..Len(processed_data) :
           /\ processed_data[i].date.month = 12
           /\ IsoWeekByThursday(processed_data[i].date) = 1
           /\ processed_data[i].weeknum = 53
    /\ \E i \in 1..Len(processed_data) :
           /\ processed_data[i].date.month = 6
           /\ processed_data[i].weeknum = IsoWeekByThursday(processed_data[i].date)

-----------------------------------------------------------------------------
(* C4 *)

\* the call of Scenario 1: every day of 2024, target year 2024, filtered
Scenario2024 == YearFiltered /\ Len(data) = 366 /\ data = FullYear2024 /\ year = <<2024>>

\* C4 (as stated): the filtered grid has 366 rows and the row of 2024-01-01
\* has weeknum 0 and weekday 0.
C4_Jan1Week0 ==
    Scenario2024 =>
        /\ Len(year_data) = 366
        /\ year_data[1].date = MkDate(2024, 1, 1, 0)
        /\ \A i \in 1..Len(year_data) :
               year_data[i].date = MkDate(2024, 1, 1, 0) =>
                   year_data[i].weeknum = 0 /\ year_data[i].weekday = 0

\* C4 (amended): the filtered grid has 366 rows and the row of 2024-01-01
\* has weeknum 1 (its ISO week, which no correction touches) and weekday 0.
C4_Jan1Week1 ==
    Scenario2024 =>
        /\ Len(year_data) = 366
        /\ year_data[1].date = MkDate(2024, 1, 1, 0)
        /\ \A i \in 1..Len(year_data) :
               year_data[i].date = MkDate(2024, 1, 1, 0) =>
                   year_data[i].weeknum = 1 /\ year_data[i].weekday = 0

C4_Witness == Scenario2024 /\ year_data[1].value = 0 /\ year_data[366].value = 365

-----------------------------------------------------------------------------
(* C5 *)

\* C5: the rows of a filtered year are in chronological order and their
\* weeknum never decreases from one row to the next.
C5_WeeknumMonotonic ==
    YearFiltered =>
        \A i \in 1..(Len(year_data) - 1) :
            /\ ToOrdinal(year_data[i].date) <= ToOrdinal(year_data[i + 1].date)
            /\ year_data[i].weeknum <= year_data[i + 1].weeknum

\* a filtered year that starts in week 0 and ends in week 53 (2012)
C5_Witness ==
    /\ YearFiltered
    /\ Len(year_data) = 366
    /\ year_data[1].weeknum = 0
    /\ year_data[2].weeknum = 1
    /\ year_data[366].weeknum = 53

-----------------------------------------------------------------------------
(* C6 *)

\* the year validation has just run
Validated == year # <<>> /\ event_dates = <<>> /\ pc \in {"filter", "raised"}

\* C6 (as stated): validation raises, naming the year and the available
\* years, whenever the target year is not a year of the observations, and
\* passes whenever it is; a raise leaves no figure.
C6_RaisesUnlessObserved ==
    /\ Validated =>
           IF year[1] \in ObservedYears
           THEN pc = "filter" /\ error = <<>>
           ELSE /\ pc = "raised"
                /\ error # <<>>
                /\ error[1].year = year[1]
                /\ {error[1].available[k] : k \in 1..Len(error[1].available)}
                       = ObservedYears
    /\ pc = "raised" => fig = <<>>

-----------------------------------------------------------------------------
(* C7 *)

\* the event markers have just been added
EventsMarked == pc = "positions" /\ event_dates[1] = "list"

\* C7: add_event_markers returns the rows of the filtered year in the same
\* order, with event = 1 on exactly the rows whose date is in the event list
\* and event = 0 on the others; a single event on 2024-02-14 marks one of the
\* 366 rows of 2024.
C7_EventsMarkExactly ==
    EventsMarked =>
        LET before == filter_by_year(processed_data, year[1])
            dates == {event_dates[2][k] : k \in 1..Len(event_dates[2])}
        IN /\ Len(year_data) = Len(before)
           /\ \A i \in 1..Len(year_data) :
                  /\ year_data[i].date = before[i].date
                  /\ year_data[i].value = before[i].value
                  /\ year_data[i].weekday = before[i].weekday
                  /\ year_data[i].weeknum = before[i].weeknum
                  /\ year_data[i].event = IF year_data[i].date \in dates THEN 1 ELSE 0
           /\ (Len(year_data) = 366 /\ year = <<2024>>
                 /\ event_dates[2] = <<MkDate(2024, 2, 14, 0)>>)
              => Cardinality(Marked(year_data)) = 1

\* the events 2024-02-14 and 2026-01-01 on the 366 rows of 2024: no error,
\* one row marked
C7_Witness ==
    /\ EventsMarked
    /\ year = <<2024>>
    /\ Len(event_dates[2]) = 2
    /\ Len(year_data) = 366
    /\ error = <<>>
    /\ Cardinality(Marked(year_data)) = 1
    /\ year_data[45].event = 1

-----------------------------------------------------------------------------
(* C8 *)

\* C8 (as stated): an event timestamp marks the row of its calendar date,
\* whatever its time of day.
C8_EventTimeOfDayIgnored ==
    EventsMarked =>
        \A k \in 1..Len(event_dates[2]) :
            \A i \in 1..Len(year_data) :
                SameDay(year_data[i].date, event_dates[2][k]) => year_data[i].event = 1

-----------------------------------------------------------------------------
(* C9 *)

\* create_layout has just read the locale
LocaleRead == language # <<>> /\ pc \in {"lines", "raised"}

\* C9: for a language outside en, ko the call raises, naming the language
\* and listing en, ko, and no labels or figure are made; for en and ko the
\* labels are 12 distinct months from January and 7 distinct weekdays from
\* Monday.
C9_LocaleLookup ==
    LocaleRead =>
        IF language[1] \in {"en", "ko"}
        THEN /\ pc = "lines"
             /\ error = <<>>
             /\ Len(locale_text[1].months) = 12
             /\ Cardinality({locale_text[1].months[k] : k \in 1..12}) = 12
             /\ locale_text[1].months[1] \in {"Jan", "1wol"}
             /\ locale_text[1].months[12] \in {"Dec", "12wol"}
             /\ Len(locale_text[1].weekdays) = 7
             /\ Cardinality({locale_text[1].weekdays[k] : k \in 1..7}) = 7
             /\ locale_text[1].weekdays[1] \in {"Mon", "wol"}
        ELSE /\ pc = "raised"
             /\ locale_text = <<>>
             /\ fig = <<>>
             /\ error # <<>>
             /\ error[1].language = language[1]
             /\ error[1].supported = <<"en", "ko">>

\* the language fr has raised
C9_Witness ==
    /\ LocaleRead
    /\ language = <<"fr">>
    /\ pc = "raised"
    /\ error[1].supported = <<"en", "ko">>

-----------------------------------------------------------------------------
(* C10 *)

\* the separator columns have just been added
LinesComputed == pc = "figure"

\* the segments a row carries: 1, 2 and 3 for the first, second and third line
Segments(r) ==
    {n \in 1..3 :
        \/ n = 1 /\ r.first_line_x # <<>>
        \/ n = 2 /\ r.second_line_y # <<>>
        \/ n = 3 /\ r.third_line_x # <<>>}

\* C10: in half units (offset 0.5 is 1): a row with day 1 has the vertical
\* segment x = 2 weeknum - 1 from y = 2 weekday - 1 to y = 13; if its
\* weekday is not Monday it also has the horizontal segment y = 2 weekday - 1
\* from x = 2 weeknum - 1 to x = 2 weeknum + 1 and the vertical segment
\* x = 2 weeknum + 1 from y = 2 weekday - 1 to y = -1; so 1 segment for a
\* month that starts on Monday, 3 otherwise, and none on any other row.
C10_MonthLineGeometry ==
    LinesComputed =>
        \A i \in 1..Len(year_data) :
            LET r == year_data[i]
                first == <<r.first_line_x, r.first_line_y1, r.first_line_y2>>
                second == <<r.second_line_x1, r.second_line_x2, r.second_line_y>>
                third == <<r.third_line_x, r.third_line_y1, r.third_line_y2>>
                none == << <<>>, <<>>, <<>> >>
                x == 2 * r.weeknum
                y == 2 * r.weekday
            IN IF r.date.day # 1
               THEN first = none /\ second = none /\ third = none /\ Segments(r) = {}
               ELSE /\ first = << <<x - 1>>, <<y - 1>>, <<13>> >>
                    /\ IF r.weekday = 0
                       THEN second = none /\ third = none /\ Segments(r) = {1}
                       ELSE /\ second = << <<x - 1>>, <<x + 1>>, <<y - 1>> >>
                            /\ third = << <<x + 1>>, <<y - 1>>, <<0 - 1>> >>
                            /\ Segments(r) = {1, 2, 3}

\* a year with a month that starts on a Monday (1 segment), a month that
\* starts on a Wednesday (3 segments) and a row that carries nothing
C10_Witness ==
    /\ LinesComputed
    /\ \E i \in 1..Len(year_data) :
           year_data[i].date.day = 1 /\ year_data[i].weekday = 0
               /\ Segments(year_data[i]) = {1}
    /\ \E i \in 1..Len(year_data) :
           year_data[i].date.day = 1 /\ year_data[i].weekday = 2
               /\ Segments(year_data[i]) = {1, 2, 3}
    /\ \E i \in 1..Len(year_data) :
           year_data[i].date.day = 2 /\ Segments(year_data[i]) = {}

-----------------------------------------------------------------------------
(* C11 *)

\* the month positions have just been computed
PositionsComputed == pc = "layout"

RECURSIVE SumFirst(_, _)
\* the sum of the first k entries of s
SumFirst(s, k) == IF k = 0 THEN 0 ELSE SumFirst(s, k - 1) + s[k]

\* C11: there is one position per month, position k is (the day total of
\* months 1..k - 15) / 7 (kept as its numerator over 7), and for the 12
\* months of a non-leap year, 31 28 31 30 31 30 31 31 30 31 30 31, the
\* positions are strictly increasing.
C11_MonthPositions ==
    PositionsComputed =>
        LET days == DaysInMonths(year_data)
        IN /\ Len(days) = 12
           /\ Len(month_positions) = Len(days)
           /\ \A k \in 1..Len(days) : month_positions[k] = SumFirst(days, k) - 15
           /\ ~IsLeap(year[1]) =>
                  /\ days = <<31, 28, 31, 30, 31, 30, 31, 31, 30, 31, 30, 31>>
                  /\ \A k \in 1..11 : month_positions[k] < month_positions[k + 1]

\* the positions of a non-leap year: 16/7 for January, 350/7 for December
C11_Witness ==
    /\ PositionsComputed
    /\ ~IsLeap(year[1])
    /\ Len(month_positions) = 12
    /\ month_positions[1] = 16
    /\ month_positions[2] = 44
    /\ month_positions[12] = 350

-----------------------------------------------------------------------------
(* C12 *)

\* preprocess_data has just run on its own output, which data now holds
Reprocessed == pc = "reprocessed"

\* C12: preprocess_data on its own output returns that output: the same
\* rows in the same order with the same value, weekday and weeknum.
C12_PreprocessIdempotent ==
    Reprocessed =>
        /\ Len(processed_data) = Len(data)
        /\ \A i \in 1..Len(data) :
               /\ processed_data[i].date = data[i].date
               /\ processed_data[i].value = data[i].value
               /\ processed_data[i].weekday = data[i].weekday
               /\ processed_data[i].weeknum = data[i].weeknum
               /\ DOMAIN processed_data[i] = DOMAIN data[i]

\* a second pass over a grid of 2024 that holds 2024-02-14 twice, with the
\* values 1 and 2, among zero-filled dates
C12_Witness ==
    /\ Reprocessed
    /\ Len(data) = 367
    /\ data[44].value = 0
    /\ data[45].value = 1
    /\ data[46].value = 2
    /\ data[45].date = data[46].date
    /\ processed_data[46].value = 2

-----------------------------------------------------------------------------
(* C13 *)

\* C13: in a filtered year no two rows of different dates share the cell
\* (weeknum, weekday): the rows hold as many cells as dates.
C13_CellsInjective ==
    YearFiltered =>
        LET cell(i) == <<year_data[i].weeknum, year_data[i].weekday>>
            rows == 1..Len(year_data)
        IN Cardinality({cell(i) : i \in rows})
               = Cardinality({year_data[i].date : i \in rows})

\* a leap year whose first day is in week 0 and whose last day is in week
\* 53: 366 dates on 366 cells
C13_Witness ==
    /\ YearFiltered
    /\ year_data[1].weeknum = 0
    /\ year_data[Len(year_data)].weeknum = 53
    /\ Cardinality({year_data[i].date : i \in 1..Len(year_data)}) = 366
    /\ Cardinality({<<year_data[i].weeknum, year_data[i].weekday>> :
                       i \in 1..Len(year_data)}) = 366

====
